---------------------------- MODULE Spec2Model ----------------------------
(***************************************************************************)
(* Model of fcgi_proc (src/src/fcgi_proc.c): a FastCGI service that turns  *)
(* GET/POST queries into invocations of the procmon supervisor.            *)
(*                                                                         *)
(* Strings are sequences of one-character strings.  An absent value (a     *)
(* NULL char pointer) is the sequence Null, which no string of characters  *)
(* equals.  The byte 0 is the character NUL.                               *)
(***************************************************************************)
EXTENDS Integers, Sequences, FiniteSets, TLC

VARIABLES
    pc,             \* position of the single thread of control
    maxPostLength,  \* FCGIProcState.maxPostLength
    postBuffer,     \* FCGIProcState.postBuffer: maxPostLength+1 bytes
    method,         \* REQUEST_METHOD of the request being handled
    contentLength,  \* CONTENT_LENGTH as read by ProcessPOSTRequest
    length,         \* ProcessPOSTRequest's length
    query,          \* the string ProcessQuery was called with
    save,           \* strtok_r's position in ProcessQueryFunctions' copy
    tok,            \* pQuery: the current token
    cmd,            \* the command line given to ExecuteCommand
    json,           \* ExecuteCommand's json argument
    childOut,       \* chunks the open subprocess will still write
    qresult,        \* ProcessQueryFunctions' result
    result,         \* ProcessRequests' result
    out,            \* what was written to the response of this request
    log,            \* the popen calls of this request
    open,           \* indices in log of the pipes popen'ed and not pclose'd
    toks,           \* the tokens given to InvokeQueryFunction, in order
    rcs,            \* what InvokeQueryFunction returned for each of them
    bodyIn,         \* the bytes FCGI_fread delivered for this request
    called,         \* the method handlers ProcessRequests called for it
    piped,          \* for each popen call, the chunks its subprocess writes
    invoked,        \* the pTagFn calls of this request, in order
    prev,           \* the outcome of the previous call of ProcessQuery
    unit            \* input and result of a function applied on its own

vars == << pc, maxPostLength, postBuffer, method, contentLength, length,
           query, save, tok, cmd, json, childOut, qresult, result, out, log,
           open, toks, rcs, bodyIn, called, piped, invoked, prev, unit >>

-----------------------------------------------------------------------------
(* Bounds of the model. *)

\* the value given with -l at startup (ProcessOptions)
MaxPostOpt == 9
\* the largest number of tokens in a query the transport delivers
MaxTokens == 2
\* the largest number of chunks a subprocess writes before it ends
MaxOut == 1
\* the width of an unsigned long, in bits
WordBits == 8
\* the longest name given to ValidateProcName on its own
MaxNameLen == 3

\* BUFSIZ of <stdio.h>, the size of the command line buffers
BUFSIZ == 8192

ULONG_MAX == 2^WordBits - 1

-----------------------------------------------------------------------------
(* Characters, strings, error codes. *)

Null == << "NULL" >>
NUL == "NUL"

EOK == "EOK"
EINVAL == "EINVAL"
ENXIO == "ENXIO"
ENOMEM == "ENOMEM"
ENOENT == "ENOENT"

Lower == { "a","b","c","d","e","f","g","h","i","j","k","l","m",
           "n","o","p","q","r","s","t","u","v","w","x","y","z" }
Upper == { "A","B","C","D","E","F","G","H","I","J","K","L","M",
           "N","O","P","Q","R","S","T","U","V","W","X","Y","Z" }
Digit == { "0","1","2","3","4","5","6","7","8","9" }

\* <ctype.h> in the "C" locale (the program never calls setlocale): no byte
\* above 127 is a letter or a digit, whether char is signed or not
isalpha(c) == c \in Lower \cup Upper
isdigit(c) == c \in Digit
isspace(c) == c \in { " ", "\t", "\n" }

Min(a, b) == IF a < b THEN a ELSE b

IsPrefix(p, s) == Len(p) <= Len(s) /\ SubSeq(s, 1, Len(p)) = p

\* the suffix of s that starts after its first n characters: &s[n]
From(s, n) == SubSeq(s, n + 1, Len(s))

Zeros(n) == [i \in 1..n |-> NUL]

\* the C string that starts at the first byte of buffer b
RECURSIVE CString(_)
CString(b) ==
    IF b = << >> \/ Head(b) = NUL THEN << >>
    ELSE << Head(b) >> \o CString(Tail(b))


-----------------------------------------------------------------------------
(* strtoul( s, NULL, 0 ) of <stdlib.h>, as ProcessPOSTRequest calls it:    *)
(* white space, an optional sign, the base taken from the prefix (0x: 16,  *)
(* 0: 8, otherwise 10), the longest run of digits of that base; ULONG_MAX  *)
(* when the value does not fit, 0 when there is no digit, and the negation *)
(* in unsigned arithmetic after a minus sign.                              *)

HexDigits == << "0","1","2","3","4","5","6","7","8","9",
                "a","b","c","d","e","f" >>
HexUpper == << "0","1","2","3","4","5","6","7","8","9",
               "A","B","C","D","E","F" >>

IsDigitOf(c, base) ==
    \E i \in 1..base : HexDigits[i] = c \/ HexUpper[i] = c

DigitVal(c) ==
    (CHOOSE i \in 1..16 : HexDigits[i] = c \/ HexUpper[i] = c) - 1

RECURSIVE SkipSpace(_)
SkipSpace(s) ==
    IF s # << >> /\ isspace(Head(s)) THEN SkipSpace(Tail(s)) ELSE s

\* the value of the digits at the start of s, from v on; -1 once it is
\* larger than ULONG_MAX
RECURSIVE Accumulate(_, _, _)
Accumulate(s, base, v) ==
    IF s = << >> \/ ~IsDigitOf(Head(s), base) THEN v
    ELSE IF v = -1 \/ v * base + DigitVal(Head(s)) > ULONG_MAX
         THEN Accumulate(Tail(s), base, -1)
         ELSE Accumulate(Tail(s), base, v * base + DigitVal(Head(s)))

strtoul(text) ==
    LET s0   == SkipSpace(text)
        neg  == s0 # << >> /\ Head(s0) = "-"
        s1   == IF s0 # << >> /\ Head(s0) \in { "-", "+" } THEN Tail(s0) ELSE s0
        hex  == /\ Len(s1) >= 3
                /\ s1[1] = "0"
                /\ s1[2] \in { "x", "X" }
                /\ IsDigitOf(s1[3], 16)
        base == IF hex THEN 16
                ELSE IF s1 # << >> /\ Head(s1) = "0" THEN 8 ELSE 10
        v    == Accumulate(IF hex THEN From(s1, 2) ELSE s1, base, 0)
    IN  IF v = -1 THEN ULONG_MAX
        ELSE IF neg THEN (ULONG_MAX + 1 - v) % (ULONG_MAX + 1)
        ELSE v

-----------------------------------------------------------------------------
(* strtok_r( s, "&", &save ): the delimiters at the start are skipped; the *)
(* token runs to the next delimiter, which is overwritten, and save is     *)
(* left after it.                                                          *)

\* a tokenizer that steps over one delimiter only, as strsep does
SkipOneDelim(s) ==
    IF s # << >> /\ Head(s) = "&" THEN Tail(s) ELSE s

RECURSIVE SkipDelim(_)
SkipDelim(s) ==
    IF s # << >> /\ Head(s) = "&" THEN SkipDelim(Tail(s)) ELSE s

\* strcspn( s, "&" )
RECURSIVE TokenLen(_)
TokenLen(s) ==
    IF s = << >> \/ Head(s) = "&" THEN 0 ELSE 1 + TokenLen(Tail(s))

StrtokToken(s) ==
    LET t == SkipDelim(s)
    IN  IF t = << >> THEN Null ELSE SubSeq(t, 1, TokenLen(t))

StrtokSave(s) ==
    LET t == SkipDelim(s)
    IN  From(t, Min(Len(t), TokenLen(t) + 1))

-----------------------------------------------------------------------------
(* The tables. *)

GET == "GET"
POST == "POST"
Wildcard == "*"

\* methodHandlers[]
methodHandlers ==
    << [handler |-> GET, fn |-> "ProcessGETRequest"],
       [handler |-> POST, fn |-> "ProcessPOSTRequest"],
       [handler |-> Wildcard, fn |-> "ProcessUnsupportedRequest"] >>

TagStart == << "s","t","a","r","t","=" >>
TagStop == << "s","t","o","p","=" >>
TagRestart == << "r","e","s","t","a","r","t","=" >>
TagList == << "l","i","s","t" >>

\* fn[] of ProcessQuery
queryFuncs ==
    << [tag |-> TagStart, pTagFn |-> "ProcessStartRequest"],
       [tag |-> TagStop, pTagFn |-> "ProcessStopRequest"],
       [tag |-> TagRestart, pTagFn |-> "ProcessRestartRequest"],
       [tag |-> TagList, pTagFn |-> "ProcessListRequest"] >>

NoFn == "NULL"

\* a lookup that compares the method without regard to case
GetHandlerFunctionNoCase(m, pFCGIHandlers) ==
    LET up == IF m = "get" THEN GET ELSE m
        hits == { i \in 1..Len(pFCGIHandlers) :
                    \/ pFCGIHandlers[i].handler = up
                    \/ pFCGIHandlers[i].handler = Wildcard }
    IN  pFCGIHandlers[CHOOSE i \in hits : \A j \in hits : i <= j].fn

\* the handler of the first entry that is the method or the wild card
GetHandlerFunction(m, pFCGIHandlers) ==
    LET hits == { i \in 1..Len(pFCGIHandlers) :
                    \/ pFCGIHandlers[i].handler = m
                    \/ pFCGIHandlers[i].handler = Wildcard }
    IN  IF hits = { } THEN NoFn
        ELSE pFCGIHandlers[CHOOSE i \in hits : \A j \in hits : i <= j].fn

\* a loop that tests strstr( query, tag ) != NULL: the tag anywhere in the
\* token
MatchQueryFuncAnywhere(t, pFns) ==
    LET hits == { i \in 1..Len(pFns) :
                    \E n \in 0..Len(t) : IsPrefix(pFns[i].tag, From(t, n)) }
    IN  IF hits = { } THEN 0
        ELSE CHOOSE i \in hits : \A j \in hits : i <= j

\* the index of the first entry whose tag the token starts with, 0 if none:
\* the loop of InvokeQueryFunction
MatchQueryFunc(t, pFns) ==
    LET hits == { i \in 1..Len(pFns) : IsPrefix(pFns[i].tag, t) }
    IN  IF hits = { } THEN 0
        ELSE CHOOSE i \in hits : \A j \in hits : i <= j

\* a validator that looks at the first character only
ValidateFirstOnly(procname) ==
    IF procname = << >> \/ isalpha(procname[1]) \/ isdigit(procname[1])
    THEN EOK ELSE EINVAL

\* a validator whose loop overwrites the result for every character, so
\* that the last one decides
ValidateLastOnly(procname) ==
    IF procname = << >>
       \/ isalpha(procname[Len(procname)]) \/ isdigit(procname[Len(procname)])
    THEN EOK ELSE EINVAL

\* a validator that wants one character at least
ValidateNonEmpty(procname) ==
    IF /\ procname # << >>
       /\ \A i \in 1..Len(procname) :
            isalpha(procname[i]) \/ isdigit(procname[i])
    THEN EOK ELSE EINVAL

ValidateProcName(procname) ==
    IF \A i \in 1..Len(procname) :
            isalpha(procname[i]) \/ isdigit(procname[i])
    THEN EOK ELSE EINVAL

\* snprintf( cmd, BUFSIZ, "/usr/local/bin/procmon <verb> %s", query ): what
\* does not fit in BUFSIZ-1 characters is cut off
ProcmonPath == << "/","u","s","r","/","l","o","c","a","l","/","b","i","n","/",
                  "p","r","o","c","m","o","n" >>

snprintf(verb, name) ==
    LET room == BUFSIZ - 1 - (Len(ProcmonPath) + 1 + Len(verb) + 1)
    IN  [ path |-> ProcmonPath, verb |-> verb,
          arg |-> SubSeq(name, 1, Min(Len(name), room)) ]

VerbStart == << "-", "s" >>
VerbStop == << "-", "k" >>
VerbRestart == << "-", "r" >>
VerbList == << "-", "o" >>

\* "/usr/local/bin/procmon -o json"
ListCommand ==
    [ path |-> ProcmonPath, verb |-> VerbList, arg |-> << "j","s","o","n" >> ]

NoCmd == [ path |-> << >>, verb |-> << >>, arg |-> << >> ]

\* handlers that format the verb of another handler
VerbOfSwapped(fnName) ==
    CASE fnName = "ProcessStartRequest" -> VerbStop
      [] fnName = "ProcessStopRequest" -> VerbStart
      [] fnName = "ProcessRestartRequest" -> VerbRestart

VerbOf(fnName) ==
    CASE fnName = "ProcessStartRequest" -> VerbStart
      [] fnName = "ProcessStopRequest" -> VerbStop
      [] fnName = "ProcessRestartRequest" -> VerbRestart

-----------------------------------------------------------------------------
(* What the transport delivers: the inputs of the model. *)

NoMethod == "(null)"
Methods == { GET, POST, "DELETE", "get", Wildcard }

\* the commands and non-commands a query is made of
TokenSet ==
    { TagStart \o << "a" >>,          \* start=a
      TagStop \o << "b", "1" >>,      \* stop=b1
      TagRestart \o << "c" >>,        \* restart=c
      TagStop \o << "b", ";" >>,      \* stop=b;   a name that is not valid
      TagStart,                       \* start=    an empty name
      TagList,                        \* list
      TagList \o << ";" >>,           \* list;     list with a suffix
      << "x" >>,                      \* x         no tag
      << "x" >> \o TagStop \o << "a" >> }   \* xstop=a   a tag after the start

RECURSIVE Join(_, _)
Join(ts, sep) ==
    IF ts = << >> THEN << >>
    ELSE IF Len(ts) = 1 THEN ts[1]
    ELSE ts[1] \o sep \o Join(Tail(ts), sep)

TokenSeqs == UNION { [1..n -> TokenSet] : n \in 0..MaxTokens }

\* the tokens joined by one delimiter, and the same tokens with a delimiter
\* in front, two between them and one at the end
QueryStrings ==
    { Join(ts, << "&" >>) : ts \in TokenSeqs }
    \cup { << "&" >> \o Join(ts, << "&", "&" >>) \o << "&" >> : ts \in TokenSeqs }

\* the queries that are a tag of a process command and nothing else
EmptyNameQueries == { TagStart, TagStop, TagRestart }

\* what stdin holds when it ends before the declared length
ShortBodies ==
    { << >>, << "x", "&" >> \o TagList }

RECURSIVE ToDecimal(_)
ToDecimal(n) ==
    IF n < 10 THEN << HexDigits[n + 1] >>
    ELSE ToDecimal(n \div 10) \o << HexDigits[(n % 10) + 1] >>

\* CONTENT_LENGTH: absent, the decimal numerals around the limits, the same
\* with a zero or a minus sign in front, a numeral too large for an unsigned
\* long, and text that is no numeral
ContentLengths(max) ==
    { Null }
    \cup { ToDecimal(n) : n \in 0..(max + 1) }
    \cup { << "0" >> \o ToDecimal(max + 1),
           << "-" >> \o ToDecimal(1),
           << "-" >> \o ToDecimal(ULONG_MAX),
           ToDecimal(ULONG_MAX + 2),
           << "x" >> }

-----------------------------------------------------------------------------
(* The response stream and the record of the popen calls. *)

\* SendHeader / SendJSONHeader
SendHeader == [ kind |-> "header", status |-> 200,
                text |-> "text/plain; charset=utf-8" ]
SendJSONHeader == [ kind |-> "header", status |-> 200,
                    text |-> "application/json; charset=utf-8" ]

\* the k-th buffer of the output of the subprocess of popen call src,
\* copied by FCGI_fwrite
Chunk(src, k) ==
    [ kind |-> "body", status |-> 0, text |-> "", src |-> src, seq |-> k ]

\* an ErrorResponse that prints the method of the request as description
ErrorResponseEcho(status, description) ==
    [ kind |-> "error", status |-> status, text |-> method ]

\* the status line, the content type and the JSON body ErrorResponse prints
ErrorResponse(status, description) ==
    [ kind |-> "error", status |-> status, text |-> description ]

-----------------------------------------------------------------------------
(* The state after main has run InitState, ProcessOptions with            *)
(* -l MaxPostOpt (in place of the default MAX_POST_LENGTH of 1024) and     *)
(* AllocatePOSTBuffer, and ProcessRequests waits in FCGI_Accept.  strdup   *)
(* in ProcessQueryFunctions is taken to succeed.                           *)

NoUnit == [ name |-> << >>, result |-> "idle" ]

\* calloc( 1, maxPostLength + 1 ): the sum is a size_t
AllocatePOSTBuffer(max) == Zeros((max + 1) % (ULONG_MAX + 1))

\* a ClearPOSTBuffer that ends the string and leaves the rest: *postBuffer = 0
ClearFirstByte(buf, max) ==
    [ i \in 1..Len(buf) |-> IF i = 1 THEN NUL ELSE buf[i] ]

\* memset( postBuffer, 0, maxPostLength + 1 )
ClearPOSTBuffer(buf, max) ==
    [ i \in 1..Len(buf) |-> IF i <= max + 1 THEN NUL ELSE buf[i] ]

\* no call of ProcessQuery was recorded
NoPrev == [ query |-> Null, result |-> EINVAL, log |-> << >> ]

RequestLocals ==
    /\ contentLength = Null
    /\ length = 0
    /\ query = Null
    /\ save = << >>
    /\ tok = Null
    /\ cmd = NoCmd
    /\ json = FALSE
    /\ childOut = 0
    /\ qresult = EINVAL
    /\ out = << >>
    /\ log = << >>
    /\ open = { }
    /\ toks = << >>
    /\ rcs = << >>
    /\ bodyIn = Null
    /\ called = << >>
    /\ piped = << >>
    /\ invoked = << >>
    /\ prev = NoPrev

Init ==
    /\ pc = "accept"
    /\ maxPostLength = MaxPostOpt
    /\ postBuffer = AllocatePOSTBuffer(maxPostLength)
    /\ method = NoMethod
    /\ result = EINVAL
    /\ RequestLocals
    /\ unit = NoUnit

-----------------------------------------------------------------------------
(* ProcessRequests: the request loop. *)

\* FCGI_Accept() >= 0: the response of the previous request is complete, a
\* new request is there; method = getenv("REQUEST_METHOD")
FCGI_Accept ==
    /\ pc = "accept"
    /\ \E m \in Methods \cup { NoMethod } : method' = m
    /\ pc' = "method"
    /\ contentLength' = Null
    /\ length' = 0
    /\ query' = Null
    /\ save' = << >>
    /\ tok' = Null
    /\ cmd' = NoCmd
    /\ json' = FALSE
    /\ childOut' = 0
    /\ qresult' = EINVAL
    /\ out' = << >>
    /\ log' = << >>
    /\ open' = { }
    /\ toks' = << >>
    /\ rcs' = << >>
    /\ bodyIn' = Null
    /\ called' = << >>
    /\ piped' = << >>
    /\ invoked' = << >>
    /\ UNCHANGED << maxPostLength, postBuffer, result, prev, unit >>

\* FCGI_Accept() < 0: the loop ends and ProcessRequests returns
AcceptFails ==
    /\ pc = "accept"
    /\ pc' = "exit"
    /\ UNCHANGED << maxPostLength, postBuffer, method, contentLength, length,
                    query, save, tok, cmd, json, childOut, qresult, result,
                    out, log, open, toks, rcs, bodyIn, called, piped, invoked,
                    prev, unit >>

\* the handler ProcessRequests calls for the request, NoFn for none
HandlerOf(m) ==
    IF m = NoMethod THEN NoFn ELSE GetHandlerFunction(m, methodHandlers)

\* a loop that answers a request without a handler as an unsupported one
NoHandlerUnsupported ==
    /\ pc = "method"
    /\ HandlerOf(method) = NoFn
    /\ called' = Append(called, "ProcessUnsupportedRequest")
    /\ out' = Append(out, [ kind |-> "error", status |-> 405,
                            text |-> "Method Not Allowed" ])
    /\ pc' = "accept"
    /\ UNCHANGED << maxPostLength, postBuffer, method, contentLength, length,
                    query, save, tok, cmd, json, childOut, qresult, result,
                    log, open, toks, rcs, bodyIn, piped, invoked, prev,
                    unit >>

\* method == NULL, or no handler: nothing is called
NoHandler ==
    /\ pc = "method"
    /\ HandlerOf(method) = NoFn
    /\ pc' = "accept"
    /\ UNCHANGED << maxPostLength, postBuffer, method, contentLength, length,
                    query, save, tok, cmd, json, childOut, qresult, result,
                    out, log, open, toks, rcs, bodyIn, called, piped, invoked,
                    prev, unit >>

\* a handler after which ProcessRequests leaves its loop
ProcessUnsupportedRequestExit ==
    /\ pc = "method"
    /\ HandlerOf(method) = "ProcessUnsupportedRequest"
    /\ called' = Append(called, "ProcessUnsupportedRequest")
    /\ out' = Append(out, ErrorResponse(405, "Method Not Allowed"))
    /\ result' = EOK
    /\ pc' = "exit"
    /\ UNCHANGED << maxPostLength, postBuffer, method, contentLength, length,
                    query, save, tok, cmd, json, childOut, qresult,
                    log, open, toks, rcs, bodyIn, piped, invoked, prev,
                    unit >>

ProcessUnsupportedRequest ==
    /\ pc = "method"
    /\ HandlerOf(method) = "ProcessUnsupportedRequest"
    /\ called' = Append(called, "ProcessUnsupportedRequest")
    /\ out' = Append(out, ErrorResponse(405, "Method Not Allowed"))
    /\ result' = EOK
    /\ pc' = "accept"
    /\ UNCHANGED << maxPostLength, postBuffer, method, contentLength, length,
                    query, save, tok, cmd, json, childOut, qresult,
                    log, open, toks, rcs, bodyIn, piped, invoked, prev,
                    unit >>

\* a ProcessQueryFunctions whose result stays EINVAL until a token sets it
ProcessQueryPessimistic(q) ==
    IF q = Null
    THEN /\ result' = EINVAL
         /\ pc' = "accept"
         /\ UNCHANGED << query, save, qresult >>
    ELSE /\ query' = q
         /\ save' = q
         /\ qresult' = EINVAL
         /\ pc' = "strtok"
         /\ UNCHANGED result

\* ProcessQuery( pState, q ) up to the first strtok_r of
\* ProcessQueryFunctions: a NULL query returns EINVAL at once, otherwise the
\* query is copied (strdup) and result is EOK "until it is not"
ProcessQuery(q) ==
    IF q = Null
    THEN /\ result' = EINVAL
         /\ pc' = "accept"
         /\ UNCHANGED << query, save, qresult >>
    ELSE /\ query' = q
         /\ save' = q
         /\ qresult' = EOK
         /\ pc' = "strtok"
         /\ UNCHANGED result

\* query = getenv("QUERY_STRING"); ProcessQuery( pState, query )
ProcessGETRequest ==
    /\ pc = "method"
    /\ HandlerOf(method) = "ProcessGETRequest"
    /\ called' = Append(called, "ProcessGETRequest")
    /\ \E q \in QueryStrings \cup { Null } : ProcessQuery(q)
    /\ UNCHANGED << maxPostLength, postBuffer, method, contentLength, length,
                    tok, cmd, json, childOut, out, log, open, toks, rcs,
                    bodyIn, piped, invoked, prev, unit >>

\* the test on the content length
LengthAccepted(len, max) == len > 0 /\ len <= max

\* contentLength = getenv("CONTENT_LENGTH") and the checks on it
ProcessPOSTRequest ==
    /\ pc = "method"
    /\ HandlerOf(method) = "ProcessPOSTRequest"
    /\ called' = Append(called, "ProcessPOSTRequest")
    /\ \E cl \in ContentLengths(maxPostLength) :
        /\ contentLength' = cl
        /\ IF cl # Null /\ LengthAccepted(strtoul(cl), maxPostLength)
           THEN /\ length' = strtoul(cl)
                /\ pc' = "GetPOSTData"
                /\ UNCHANGED << out, result >>
           ELSE /\ out' = Append(out, ErrorResponse(413, "Invalid Content-Length"))
                /\ result' = EINVAL
                /\ pc' = "accept"
                /\ UNCHANGED length
    /\ UNCHANGED << maxPostLength, postBuffer, method, query, save, tok, cmd,
                    json, childOut, qresult, log, open, toks, rcs, bodyIn,
                    piped, invoked, prev, unit >>

\* FCGI_fread( postBuffer, length, 1, FCGI_stdin ): the bytes stdin has, at
\* most length of them, are copied to the start of the buffer
Fread(buf, data) ==
    [ i \in 1..Len(buf) |-> IF i <= Len(data) THEN data[i] ELSE buf[i] ]

\* GetPOSTData and, when it returns EOK, the call of ProcessQuery on the
\* buffer. FCGI_fread writes the bytes it gets from the start of the buffer;
\* when they leave no byte of the allocation for the terminator, the write
\* or the read of the string goes past the allocation, and what the program
\* does from there on is undefined: pc = "overflow"
GetPOSTData ==
    /\ pc = "GetPOSTData"
    /\ IF length <= maxPostLength
       THEN \E data \in { q \in QueryStrings : Len(q) = length }
                        \cup { b \in ShortBodies : Len(b) < length } :
                /\ bodyIn' = data
                /\ IF Len(data) >= Len(postBuffer)
                   THEN /\ pc' = "overflow"
                        /\ UNCHANGED << postBuffer, result, query, save,
                                        qresult >>
                   ELSE /\ postBuffer' = Fread(postBuffer, data)
                        /\ IF Len(data) = length
                           THEN ProcessQuery(CString(postBuffer'))
                           ELSE /\ result' = ENXIO
                                /\ pc' = "accept"
                                /\ UNCHANGED << query, save, qresult >>
       ELSE /\ result' = ENOMEM
            /\ pc' = "accept"
            /\ UNCHANGED << postBuffer, bodyIn, query, save, qresult >>
    /\ UNCHANGED << maxPostLength, method, contentLength, length, tok, cmd,
                    json, childOut, out, log, open, toks, rcs, called, piped,
                    invoked, prev, unit >>

-----------------------------------------------------------------------------
(* ProcessQueryFunctions and InvokeQueryFunction: the tokens of a query.   *)

\* an aggregate that every token's result overwrites
AggregateLatest(res, rc) == rc

\* if ( rc != EOK ) result = rc
Aggregate(res, rc) == IF rc # EOK THEN rc ELSE res

\* a loop that ends at the first token that fails
TokenDoneBreak(rc) ==
    /\ rcs' = Append(rcs, rc)
    /\ qresult' = Aggregate(qresult, rc)
    /\ pc' = IF rc # EOK THEN "ProcessQueryReturn" ELSE "strtok"

\* InvokeQueryFunction returns rc to the loop of ProcessQueryFunctions
TokenDone(rc) ==
    /\ rcs' = Append(rcs, rc)
    /\ qresult' = Aggregate(qresult, rc)
    /\ pc' = "strtok"

\* a strtok_r on the caller's string in place of the copy: the delimiter
\* that ends the token becomes the end of the caller's string
NextTokenInPlace ==
    /\ pc = "strtok"
    /\ IF StrtokToken(save) = Null
       THEN /\ pc' = "ProcessQueryReturn"
            /\ UNCHANGED << tok, save, toks, query >>
       ELSE /\ tok' = StrtokToken(save)
            /\ save' = StrtokSave(save)
            /\ toks' = Append(toks, StrtokToken(save))
            /\ LET end == Len(query) - Len(SkipDelim(save))
                           + TokenLen(SkipDelim(save))
               IN  query' = IF end \in 0..Len(query)
                            THEN SubSeq(query, 1, end)
                            ELSE query
            /\ pc' = "InvokeQueryFunction"
    /\ UNCHANGED << maxPostLength, postBuffer, method, contentLength, length,
                    cmd, json, childOut, qresult, result, out, log,
                    open, rcs, bodyIn, called, piped, invoked, prev, unit >>

\* pQuery = strtok_r( ... ): the next token, or the end of the loop
NextToken ==
    /\ pc = "strtok"
    /\ IF StrtokToken(save) = Null
       THEN /\ pc' = "ProcessQueryReturn"
            /\ UNCHANGED << tok, save, toks >>
       ELSE /\ tok' = StrtokToken(save)
            /\ save' = StrtokSave(save)
            /\ toks' = Append(toks, StrtokToken(save))
            /\ pc' = "InvokeQueryFunction"
    /\ UNCHANGED << maxPostLength, postBuffer, method, contentLength, length,
                    query, cmd, json, childOut, qresult, result, out, log,
                    open, rcs, bodyIn, called, piped, invoked, prev, unit >>

\* an offset that is one short, so that the handler gets the '=' as well
SuffixFromSeparator(t, tag) == From(t, Len(tag) - 1)

\* offset = strlen( tag ); &query[offset]
Suffix(t, tag) == From(t, Len(tag))

\* InvokeQueryFunction with the handler it calls, up to ExecuteCommand:
\* pTagFn( pState, &query[offset] ) called for the n-th token
Call(n, fnName, arg) == [ token |-> n, fn |-> fnName, arg |-> arg ]

\* handlers that remember the command line they formatted last and do not
\* run the same one again
InvokeQueryFunctionOnce ==
    /\ pc = "InvokeQueryFunction"
    /\ LET i == MatchQueryFunc(tok, queryFuncs)
       IN  IF i = 0
           THEN /\ TokenDone(EOK)
                /\ UNCHANGED << cmd, json, invoked >>
           ELSE LET fnName == queryFuncs[i].pTagFn
                    arg == Suffix(tok, queryFuncs[i].tag)
                IN  /\ invoked' = Append(invoked, Call(Len(toks), fnName, arg))
                    /\ IF fnName = "ProcessListRequest"
                       THEN /\ cmd' = ListCommand
                            /\ json' = TRUE
                            /\ pc' = "popen"
                            /\ UNCHANGED << rcs, qresult >>
                       ELSE IF snprintf(VerbOf(fnName), arg) = cmd
                       THEN /\ TokenDone(EOK)
                            /\ UNCHANGED << cmd, json >>
                       ELSE IF ValidateProcName(arg) = EOK
                       THEN /\ cmd' = snprintf(VerbOf(fnName), arg)
                            /\ json' = FALSE
                            /\ pc' = "popen"
                            /\ UNCHANGED << rcs, qresult >>
                       ELSE /\ TokenDone(ValidateProcName(arg))
                            /\ UNCHANGED << cmd, json >>
    /\ UNCHANGED << maxPostLength, postBuffer, method, contentLength, length,
                    query, save, tok, childOut, result, out, log, open, toks,
                    bodyIn, called, piped, prev, unit >>

\* result is EOK unless a handler says otherwise; ProcessListRequest runs
\* the list command whatever follows the tag; the other handlers validate
\* the name and format the command line
InvokeQueryFunction ==
    /\ pc = "InvokeQueryFunction"
    /\ LET i == MatchQueryFunc(tok, queryFuncs)
       IN  IF i = 0
           THEN /\ TokenDone(EOK)
                /\ UNCHANGED << cmd, json, invoked >>
           ELSE LET fnName == queryFuncs[i].pTagFn
                    arg == Suffix(tok, queryFuncs[i].tag)
                IN  /\ invoked' = Append(invoked, Call(Len(toks), fnName, arg))
                    /\ IF fnName = "ProcessListRequest"
                       THEN /\ cmd' = ListCommand
                            /\ json' = TRUE
                            /\ pc' = "popen"
                            /\ UNCHANGED << rcs, qresult >>
                       ELSE IF ValidateProcName(arg) = EOK
                       THEN /\ cmd' = snprintf(VerbOf(fnName), arg)
                            /\ json' = FALSE
                            /\ pc' = "popen"
                            /\ UNCHANGED << rcs, qresult >>
                       ELSE /\ TokenDone(ValidateProcName(arg))
                            /\ UNCHANGED << cmd, json >>
    /\ UNCHANGED << maxPostLength, postBuffer, method, contentLength, length,
                    query, save, tok, childOut, result, out, log, open, toks,
                    bodyIn, called, piped, prev, unit >>

-----------------------------------------------------------------------------
(* ExecuteCommand. *)

Launch(c, t, ok) == [ cmd |-> c, tok |-> t, launched |-> ok ]

\* an ExecuteCommand whose result starts as EOK
PopenFailsEOK ==
    /\ pc = "popen"
    /\ log' = Append(log, Launch(cmd, tok, FALSE))
    /\ piped' = Append(piped, 0)
    /\ TokenDone(EOK)
    /\ UNCHANGED << maxPostLength, postBuffer, method, contentLength, length,
                    query, save, tok, cmd, json, childOut, result, out, open,
                    toks, bodyIn, called, invoked, prev, unit >>

\* popen( cmd, "r" ) returns NULL: ENOENT
PopenFails ==
    /\ pc = "popen"
    /\ log' = Append(log, Launch(cmd, tok, FALSE))
    /\ piped' = Append(piped, 0)
    /\ TokenDone(ENOENT)
    /\ UNCHANGED << maxPostLength, postBuffer, method, contentLength, length,
                    query, save, tok, cmd, json, childOut, result, out, open,
                    toks, bodyIn, called, invoked, prev, unit >>

\* popen( cmd, "r" ) starts the subprocess, which will write some output
Popen ==
    /\ pc = "popen"
    /\ log' = Append(log, Launch(cmd, tok, TRUE))
    /\ open' = open \cup { Len(log) + 1 }
    /\ \E n \in 0..MaxOut : childOut' = n /\ piped' = Append(piped, n)
    /\ pc' = "header"
    /\ UNCHANGED << maxPostLength, postBuffer, method, contentLength, length,
                    query, save, tok, cmd, json, qresult, result, out, toks,
                    rcs, bodyIn, called, invoked, prev, unit >>

\* an ExecuteCommand that has the test on json the wrong way round
HeaderSwapped ==
    /\ pc = "header"
    /\ out' = Append(out, IF json THEN SendHeader ELSE SendJSONHeader)
    /\ pc' = "fread"
    /\ UNCHANGED << maxPostLength, postBuffer, method, contentLength, length,
                    query, save, tok, cmd, json, childOut, qresult, result,
                    log, open, toks, rcs, bodyIn, called, piped, invoked,
                    prev, unit >>

\* json ? SendJSONHeader() : SendHeader()
Header ==
    /\ pc = "header"
    /\ out' = Append(out, IF json THEN SendJSONHeader ELSE SendHeader)
    /\ pc' = "fread"
    /\ UNCHANGED << maxPostLength, postBuffer, method, contentLength, length,
                    query, save, tok, cmd, json, childOut, qresult, result,
                    log, open, toks, rcs, bodyIn, called, piped, invoked, prev, unit >>

\* n = fread( buf, 1, BUFSIZ, fp_in ); FCGI_fwrite while n > 0
CopyOutput ==
    /\ pc = "fread"
    /\ IF childOut > 0
       THEN /\ out' = Append(out, Chunk(Len(log),
                                         piped[Len(log)] - childOut + 1))
            /\ childOut' = childOut - 1
            /\ pc' = "fread"
       ELSE /\ pc' = "pclose"
            /\ UNCHANGED << out, childOut >>
    /\ UNCHANGED << maxPostLength, postBuffer, method, contentLength, length,
                    query, save, tok, cmd, json, qresult, result, log, open,
                    toks, rcs, bodyIn, called, piped, invoked, prev, unit >>

\* an ExecuteCommand that returns without closing the pipe
PcloseLeak ==
    /\ pc = "pclose"
    /\ TokenDone(EOK)
    /\ UNCHANGED << maxPostLength, postBuffer, method, contentLength, length,
                    query, save, tok, cmd, json, childOut, result, out, log,
                    open, toks, bodyIn, called, piped, invoked, prev, unit >>

\* pclose( fp_in ); result = EOK
Pclose ==
    /\ pc = "pclose"
    /\ open' = open \ { Len(log) }
    /\ TokenDone(EOK)
    /\ UNCHANGED << maxPostLength, postBuffer, method, contentLength, length,
                    query, save, tok, cmd, json, childOut, result, out, log,
                    toks, bodyIn, called, piped, invoked, prev, unit >>

-----------------------------------------------------------------------------
(* The end of ProcessQuery and of the handler that called it. *)

\* ProcessQueryFunctions has returned: ProcessQuery sends the error
\* response if the result is not EOK; ProcessPOSTRequest then clears the
\* buffer; the handler returns to the loop
ProcessQueryReturn ==
    /\ pc = "ProcessQueryReturn"
    /\ out' = IF qresult # EOK
              THEN Append(out, ErrorResponse(400, "Bad request"))
              ELSE out
    /\ result' = qresult
    /\ postBuffer' = IF HandlerOf(method) = "ProcessPOSTRequest"
                     THEN ClearPOSTBuffer(postBuffer, maxPostLength)
                     ELSE postBuffer
    /\ pc' = "accept"
    /\ UNCHANGED << maxPostLength, method, contentLength, length, query, save,
                    tok, cmd, json, childOut, qresult, log, open, toks, rcs,
                    bodyIn, called, piped, invoked, prev, unit >>

-----------------------------------------------------------------------------

Next ==
    \/ FCGI_Accept
    \/ AcceptFails
    \/ NoHandler
    \/ ProcessUnsupportedRequest
    \/ ProcessGETRequest
    \/ ProcessPOSTRequest
    \/ GetPOSTData
    \/ NextToken
    \/ InvokeQueryFunction
    \/ PopenFails
    \/ Popen
    \/ Header
    \/ CopyOutput
    \/ Pclose
    \/ ProcessQueryReturn

Spec == Init /\ [][Next]_vars

\* the steps of the handling of an accepted request: the program runs them
\* one after the other without waiting for anything but the subprocess,
\* which writes a finite output and closes it
Handling ==
    \/ NoHandler
    \/ ProcessUnsupportedRequest
    \/ ProcessGETRequest
    \/ ProcessPOSTRequest
    \/ GetPOSTData
    \/ NextToken
    \/ InvokeQueryFunction
    \/ PopenFails
    \/ Popen
    \/ Header
    \/ CopyOutput
    \/ Pclose
    \/ ProcessQueryReturn

\* the program with a handling that goes on; whether a next request comes
\* is left to the web server
SpecFair == Spec /\ WF_vars(Handling)

-----------------------------------------------------------------------------
(* ValidateProcName applied on its own to every name over a small          *)
(* alphabet: letters, a digit, punctuation, white space, a path separator  *)
(* and a byte above 127.                                                   *)

HighByte == "\\351"
NameChars == { "a", "Z", "7", ";", " ", "/", HighByte }

NamesUpTo(n) == UNION { [1..k -> NameChars] : k \in 0..n }

InitValidate ==
    /\ pc = "unit"
    /\ maxPostLength = MaxPostOpt
    /\ postBuffer = AllocatePOSTBuffer(maxPostLength)
    /\ method = NoMethod
    /\ result = EINVAL
    /\ RequestLocals
    /\ unit \in { [ name |-> n, result |-> "idle" ] : n \in NamesUpTo(MaxNameLen) }

ApplyValidateProcName ==
    /\ pc = "unit"
    /\ unit.result = "idle"
    /\ unit' = [ unit EXCEPT !.result = ValidateProcName(unit.name) ]
    /\ UNCHANGED << pc, maxPostLength, postBuffer, method, contentLength,
                    length, query, save, tok, cmd, json, childOut, qresult,
                    result, out, log, open, toks, rcs, bodyIn, called,
                    piped, invoked, prev >>

SpecValidate == InitValidate /\ [][ApplyValidateProcName]_vars

-----------------------------------------------------------------------------
(* ProcessQuery called twice with the same query, as for two requests that  *)
(* carry it. The locals of the first call are left as they are, since a    *)
(* call starts with whatever the stack holds; what the first call sent and *)
(* ran is kept in prev. The subprocesses start or fail to start the second *)
(* time as they did the first.                                             *)

InitTwice ==
    /\ pc = "route"
    /\ maxPostLength = MaxPostOpt
    /\ postBuffer = AllocatePOSTBuffer(maxPostLength)
    /\ method = GET
    /\ result = EINVAL
    /\ RequestLocals
    /\ unit \in { [ name |-> q, result |-> "idle" ] :
                    q \in QueryStrings \cup EmptyNameQueries }

RouteFirst ==
    /\ pc = "route"
    /\ unit.result = "idle"
    /\ ProcessQuery(unit.name)
    /\ unit' = [ unit EXCEPT !.result = "first" ]
    /\ UNCHANGED << maxPostLength, postBuffer, method, contentLength, length,
                    tok, cmd, json, childOut, out, log, open, toks, rcs,
                    bodyIn, called, piped, invoked, prev >>

RouteAgain ==
    /\ pc = "accept"
    /\ unit.result = "first"
    /\ prev' = [ query |-> query, result |-> result, log |-> log ]
    /\ out' = << >>
    /\ log' = << >>
    /\ toks' = << >>
    /\ rcs' = << >>
    /\ piped' = << >>
    /\ invoked' = << >>
    /\ ProcessQuery(unit.name)
    /\ unit' = [ unit EXCEPT !.result = "second" ]
    /\ UNCHANGED << maxPostLength, postBuffer, method, contentLength, length,
                    tok, cmd, json, childOut, open, bodyIn, called >>

\* popen has succeeded or failed for the k-th command as it did for the
\* k-th command of the first call
SameCollaborator ==
    unit.result = "second" =>
        \A k \in 1..Min(Len(log), Len(prev.log)) :
            log[k].launched = prev.log[k].launched

Routing ==
    \/ NextToken
    \/ InvokeQueryFunction
    \/ PopenFails
    \/ Popen
    \/ Header
    \/ CopyOutput
    \/ Pclose
    \/ ProcessQueryReturn

NextTwice ==
    \/ RouteFirst
    \/ RouteAgain
    \/ Routing /\ SameCollaborator'

SpecTwice == InitTwice /\ [][NextTwice]_vars

-----------------------------------------------------------------------------
(* main from the call of AllocatePOSTBuffer on, for the values the option  *)
(* -l can give maxPostLength: 0, 1, the one of the other specifications and *)
(* the largest size_t. The requests are POSTs, the ones that use the       *)
(* buffer.                                                                 *)

MaxPostOptions == { 0, 1, MaxPostOpt, ULONG_MAX }

\* InitState and ProcessOptions have run
InitMain ==
    /\ pc = "main"
    /\ maxPostLength \in MaxPostOptions
    /\ postBuffer = Null
    /\ method = NoMethod
    /\ result = EINVAL
    /\ RequestLocals
    /\ unit = NoUnit

\* a main that calls ProcessRequests whatever AllocatePOSTBuffer returned
mainAnyway ==
    /\ pc = "main"
    /\ \E ok \in BOOLEAN :
        postBuffer' = IF maxPostLength > 0 /\ ok
                      THEN AllocatePOSTBuffer(maxPostLength)
                      ELSE Null
    /\ pc' = "accept"
    /\ UNCHANGED << maxPostLength, method, contentLength, length, query,
                    save, tok, cmd, json, childOut, qresult, result, out, log,
                    open, toks, rcs, bodyIn, called, piped, invoked, prev,
                    unit >>

\* AllocatePOSTBuffer( &state ) == EOK ? ProcessRequests : syslog; calloc
\* gives the bytes asked for or NULL (for 0 bytes: NULL or no byte at all)
main ==
    /\ pc = "main"
    /\ \E ok \in BOOLEAN :
        IF maxPostLength > 0 /\ ok
        THEN /\ postBuffer' = AllocatePOSTBuffer(maxPostLength)
             /\ pc' = "accept"
        ELSE /\ pc' = "syslog"
             /\ UNCHANGED postBuffer
    /\ UNCHANGED << maxPostLength, method, contentLength, length, query,
                    save, tok, cmd, json, childOut, qresult, result, out, log,
                    open, toks, rcs, bodyIn, called, piped, invoked, prev,
                    unit >>

\* syslog( LOG_ERR, "Cannot allocate POST buffer" ), and main returns
Syslog ==
    /\ pc = "syslog"
    /\ pc' = "exit"
    /\ UNCHANGED << maxPostLength, postBuffer, method, contentLength, length,
                    query, save, tok, cmd, json, childOut, qresult, result,
                    out, log, open, toks, rcs, bodyIn, called, piped, invoked,
                    prev, unit >>

NextMain ==
    \/ main
    \/ Syslog
    \/ FCGI_Accept /\ method' = POST
    \/ AcceptFails
    \/ ProcessPOSTRequest
    \/ GetPOSTData
    \/ Routing

SpecMain == InitMain /\ [][NextMain]_vars

-----------------------------------------------------------------------------
(* The claims. *)

\* the class [A-Za-z0-9]
Alnum == Lower \cup Upper \cup Digit

AllAlnum(s) == \A i \in 1..Len(s) : s[i] \in Alnum

\* the tag a verb of the supervisor belongs to
TagOfVerb(verb) ==
    CASE verb = VerbStart -> TagStart
      [] verb = VerbStop -> TagStop
      [] verb = VerbRestart -> TagRestart

\* C1: every command line handed to popen is the fixed list command, or
\* procmon with -s, -k or -r and a name that is the suffix of the token
\* after its tag and holds letters and digits only; nothing else of a
\* request reaches a command line.
C1_CommandLinesAreSafe ==
    \A i \in 1..Len(log) :
        LET c == log[i].cmd
        IN  \/ c = ListCommand
            \/ /\ c.path = ProcmonPath
               /\ c.verb \in { VerbStart, VerbStop, VerbRestart }
               /\ IsPrefix(TagOfVerb(c.verb), log[i].tok)
               /\ c.arg = From(log[i].tok, Len(TagOfVerb(c.verb)))
               /\ AllAlnum(c.arg)

\* a request with a token whose name holds ';' and with a list token that
\* has a suffix, of which the list command and no other was run
C1_Witness ==
    /\ pc = "accept"
    /\ toks = << TagStop \o << "b", ";" >>, TagList \o << ";" >> >>
    /\ Len(log) = 1
    /\ log[1].cmd = ListCommand
    /\ log[1].launched

\* C2: ValidateProcName returns EOK exactly for the names made of letters
\* and digits only, and EINVAL for every name with a byte outside that
\* class, wherever the byte is.
C2_ValidateIffAlnum ==
    unit.result # "idle" =>
        /\ unit.result \in { EOK, EINVAL }
        /\ unit.result = EOK <=> AllAlnum(unit.name)

\* a rejected name whose only byte outside the class is in the middle
C2_Witness ==
    /\ unit.result = EINVAL
    /\ Len(unit.name) = 3
    /\ unit.name[1] \in Alnum
    /\ unit.name[2] \notin Alnum
    /\ unit.name[3] \in Alnum

\* C3: a request with a method has exactly one handler called: the GET
\* handler iff the method is "GET", the POST handler iff it is "POST", and
\* otherwise the wildcard handler, which sends the 405 response, reads no
\* body and starts no subprocess.
C3_OneHandlerPerMethod ==
    (method # NoMethod /\ pc # "method") =>
        /\ Len(called) = 1
        /\ called[1] = "ProcessGETRequest" <=> method = "GET"
        /\ called[1] = "ProcessPOSTRequest" <=> method = "POST"
        /\ method \notin { "GET", "POST" } =>
            /\ called[1] = "ProcessUnsupportedRequest"
            /\ out = << ErrorResponse(405, "Method Not Allowed") >>
            /\ bodyIn = Null
            /\ log = << >>

\* the request of method "get" was answered by the wildcard handler
C3_Witness ==
    /\ pc = "accept"
    /\ method = "get"
    /\ called = << "ProcessUnsupportedRequest" >>
    /\ out = << ErrorResponse(405, "Method Not Allowed") >>


\* the value of a string of decimal digits
RECURSIVE DecimalValue(_)
DecimalValue(d) ==
    IF d = << >> THEN 0
    ELSE DecimalValue(SubSeq(d, 1, Len(d) - 1)) * 10 + DigitVal(d[Len(d)])

Unsigned(t) == IF t # << >> /\ t[1] = "-" THEN Tail(t) ELSE t

\* a decimal numeral: digits, with or without a minus sign in front
IsNumeral(t) ==
    /\ t # Null
    /\ Unsigned(t) # << >>
    /\ \A i \in 1..Len(Unsigned(t)) : Unsigned(t)[i] \in Digit

\* the length a decimal numeral declares
Declared(t) ==
    IF t[1] = "-" THEN 0 - DecimalValue(Unsigned(t)) ELSE DecimalValue(t)

BodyRead == pc = "GetPOSTData" \/ bodyIn # Null

\* C4: the body of a POST is read iff the declared content length is
\* there and is at least 1 and at most the configured maximum; otherwise
\* the 413 response and nothing else is sent, nothing is read and nothing
\* is launched.
C4_BodyReadIffLengthInRange ==
    called = << "ProcessPOSTRequest" >> =>
        LET inRange == /\ IsNumeral(contentLength)
                       /\ 1 <= Declared(contentLength)
                       /\ Declared(contentLength) <= maxPostLength
        IN  /\ BodyRead <=> inRange
            /\ ~inRange =>
                /\ out = << ErrorResponse(413, "Invalid Content-Length") >>
                /\ log = << >>

\* C5: the string a POST hands to ProcessQuery is the body that was read,
\* byte for byte, whatever the earlier requests were.
C5_QueryIsTheBody ==
    (called = << "ProcessPOSTRequest" >> /\ query # Null) => query = bodyIn

MatchesNoTag(t) ==
    \A tag \in { TagStart, TagStop, TagRestart, TagList } : ~IsPrefix(tag, t)

BadRequest == ErrorResponse(400, "Bad request")

\* C6: a token that starts with none of the tags is recorded as a failure,
\* the query fails and the 400 response is sent.
C6_UnmatchedTokenFails ==
    (pc = "accept" /\ query # Null) =>
        \A i \in 1..Len(toks) :
            MatchesNoTag(toks[i]) =>
                /\ rcs[i] # EOK
                /\ qresult # EOK
                /\ out # << >>
                /\ out[Len(out)] = BadRequest

\* C7: a GET without a query string fails and the 400 "Bad request"
\* response is sent.
C7_AbsentQueryIsBadRequest ==
    (pc = "accept" /\ called = << "ProcessGETRequest" >> /\ query = Null) =>
        /\ result # EOK
        /\ out = << BadRequest >>

\* the non-empty fragments of a query between its '&' characters, in order
RECURSIVE Fragments(_, _)
Fragments(s, cur) ==
    LET done == IF cur = << >> THEN << >> ELSE << cur >>
    IN  IF s = << >> THEN done
        ELSE IF Head(s) = "&" THEN done \o Fragments(Tail(s), << >>)
        ELSE Fragments(Tail(s), Append(cur, Head(s)))

Tokens(q) == Fragments(q, << >>)

Errors(o) == { i \in 1..Len(o) : o[i].kind = "error" }

InQuery ==
    pc \in { "strtok", "InvokeQueryFunction", "popen", "header", "fread",
             "pclose", "ProcessQueryReturn" }

\* C8: when a token of a query returns a failure, the tokens after it are
\* given to InvokeQueryFunction all the same, in the order of the query,
\* and one 400 response is sent, after the last token, however many tokens
\* failed; what the tokens before it wrote and launched stays.
C8_AllTokensThenOneError ==
    /\ InQuery => Errors(out) = { }
    /\ (pc = "accept" /\ query # Null /\ \E i \in 1..Len(rcs) : rcs[i] # EOK) =>
        /\ toks = Tokens(query)
        /\ Len(rcs) = Len(toks)
        /\ Errors(out) = { Len(out) }
        /\ out[Len(out)] = BadRequest

\* the first of two tokens failed, the second was run and wrote its
\* header, and the error response came last
C8_Witness ==
    /\ pc = "accept"
    /\ rcs = << EINVAL, EOK >>
    /\ Len(log) = 1
    /\ log[1].launched
    /\ Len(out) >= 2
    /\ out[1].kind = "header"
    /\ out[Len(out)] = BadRequest

\* the last result that is not EOK, EOK if there is none
RECURSIVE LastFailure(_)
LastFailure(rs) ==
    IF rs = << >> THEN EOK
    ELSE IF rs[Len(rs)] # EOK THEN rs[Len(rs)]
    ELSE LastFailure(SubSeq(rs, 1, Len(rs) - 1))

\* C9: the result of ProcessQueryFunctions is EOK iff every token's
\* result was EOK, and otherwise the result of the last token that
\* failed: a success after a failure does not reset it.
C9_AggregateIsLastFailure ==
    (pc \in { "strtok", "ProcessQueryReturn" } \/ (pc = "accept" /\ query # Null)) =>
        /\ qresult = EOK <=> \A i \in 1..Len(rcs) : rcs[i] = EOK
        /\ qresult = LastFailure(rcs)

\* a failure followed by a success
C9_Witness ==
    /\ pc = "ProcessQueryReturn"
    /\ rcs = << EINVAL, EOK >>
    /\ qresult = EINVAL

\* the command line the query language gives a token, NoCmd for a token
\* that is no command or names no valid process
ClaimedCommand(t) ==
    CASE IsPrefix(TagList, t) -> ListCommand
      [] IsPrefix(TagStart, t) /\ AllAlnum(From(t, Len(TagStart))) ->
            [ path |-> ProcmonPath, verb |-> VerbStart, arg |-> From(t, Len(TagStart)) ]
      [] IsPrefix(TagStop, t) /\ AllAlnum(From(t, Len(TagStop))) ->
            [ path |-> ProcmonPath, verb |-> VerbStop, arg |-> From(t, Len(TagStop)) ]
      [] IsPrefix(TagRestart, t) /\ AllAlnum(From(t, Len(TagRestart))) ->
            [ path |-> ProcmonPath, verb |-> VerbRestart, arg |-> From(t, Len(TagRestart)) ]
      [] OTHER -> NoCmd

RECURSIVE ClaimedCommands(_)
ClaimedCommands(ts) ==
    IF ts = << >> THEN << >>
    ELSE (IF ClaimedCommand(Head(ts)) = NoCmd THEN << >>
          ELSE << ClaimedCommand(Head(ts)) >>) \o ClaimedCommands(Tail(ts))

\* C10: the subprocesses of a query are started in the order of its
\* tokens, one for each command token, and each is closed before the next
\* is started.
C10_CommandsInOrderOneAtATime ==
    /\ Cardinality(open) <= 1
    /\ open # { } => open = { Len(log) }
    /\ pc = "popen" => open = { }
    /\ (pc = "accept" /\ query # Null) =>
        [ i \in 1..Len(log) |-> log[i].cmd ] = ClaimedCommands(Tokens(query))

\* stop=b1&start=a was run: -k b1, closed, then -s a, closed
C10_Witness ==
    /\ pc = "accept"
    /\ query = TagStop \o << "b", "1", "&" >> \o TagStart \o << "a" >>
    /\ Len(log) = 2
    /\ log[1].cmd.verb = VerbStop /\ log[1].cmd.arg = << "b", "1" >>
    /\ log[2].cmd.verb = VerbStart /\ log[2].cmd.arg = << "a" >>
    /\ log[1].launched /\ log[2].launched
    /\ open = { }

-----------------------------------------------------------------------------
(* Invalid names and unmatched tokens. *)

NameTags == { TagStart, TagStop, TagRestart }

\* a start=, stop= or restart= token whose name has a character outside
\* [A-Za-z0-9]
NameFails(t) ==
    \E tag \in NameTags :
        /\ IsPrefix(tag, t)
        /\ ~AllAlnum(From(t, Len(tag)))

Headers(o) == { i \in 1..Len(o) : o[i].kind = "header" }

Launched(l) == { k \in 1..Len(l) : l[k].launched }

\* C11: a start/stop/restart token whose name fails validation launches no
\* subprocess and emits no success header, gets the result an unmatched
\* token gets, and the response of the request ends with 400 "Bad request".
C11_InvalidNameLikeUnmatched ==
    (pc = "accept" /\ query # Null) =>
        \A j \in 1..Len(toks) :
            NameFails(toks[j]) =>
                /\ \A k \in 1..Len(log) : log[k].tok # toks[j]
                /\ Cardinality(Headers(out)) = Cardinality(Launched(log))
                /\ \A u \in 1..Len(toks) :
                       MatchesNoTag(toks[u]) => rcs[u] = rcs[j]
                /\ out # << >>
                /\ out[Len(out)] = BadRequest

\* what does hold for such a token, leaving the unmatched tokens aside
C11_InvalidNameAlone ==
    (pc = "accept" /\ query # Null) =>
        \A j \in 1..Len(toks) :
            NameFails(toks[j]) =>
                /\ \A k \in 1..Len(log) : log[k].tok # toks[j]
                /\ Cardinality(Headers(out)) = Cardinality(Launched(log))
                /\ rcs[j] = EINVAL
                /\ out # << >>
                /\ out[Len(out)] = BadRequest

-----------------------------------------------------------------------------
(* The verb of each tag. *)

\* C12: a start=<name> token runs procmon with -s <name>, stop=<name> with
\* -k <name>, restart=<name> with -r <name>, and a list token runs
\* procmon -o json with no name; no token runs with the verb of another
\* tag. Stated of the command line at each call of popen and of all the
\* calls of a request once it is over.
C12_VerbOfMatchedTag ==
    /\ pc = "accept" => \A i \in 1..Len(log) :
        LET t == log[i].tok
            c == log[i].cmd
        IN  /\ c.path = ProcmonPath
            /\ IsPrefix(<< "s","t","a","r","t","=" >>, t) =>
                    c.verb = << "-", "s" >> /\ c.arg = From(t, 6)
            /\ IsPrefix(<< "s","t","o","p","=" >>, t) =>
                    c.verb = << "-", "k" >> /\ c.arg = From(t, 5)
            /\ IsPrefix(<< "r","e","s","t","a","r","t","=" >>, t) =>
                    c.verb = << "-", "r" >> /\ c.arg = From(t, 8)
            /\ IsPrefix(<< "l","i","s","t" >>, t) =>
                    c.verb = << "-", "o" >> /\ c.arg = << "j","s","o","n" >>
            /\ ~MatchesNoTag(t)
    /\ pc = "popen" => cmd = ClaimedCommand(tok)

\* restart=c&list was run: -r c, then -o json
C12_Witness ==
    /\ pc = "accept"
    /\ toks = << TagRestart \o << "c" >>, TagList >>
    /\ Len(log) = 2
    /\ log[1].cmd = [ path |-> ProcmonPath, verb |-> << "-", "r" >>,
                      arg |-> << "c" >> ]
    /\ log[2].cmd = [ path |-> ProcmonPath, verb |-> << "-", "o" >>,
                      arg |-> << "j","s","o","n" >> ]

-----------------------------------------------------------------------------
(* The response of a command that ran. *)

\* the header the interface gives the command of a token
ClaimedHeader(t) ==
    IF IsPrefix(TagList, t)
    THEN [ kind |-> "header", status |-> 200,
           text |-> "application/json; charset=utf-8" ]
    ELSE [ kind |-> "header", status |-> 200,
           text |-> "text/plain; charset=utf-8" ]

\* the first n chunks of the output of the subprocess of popen call k
Copied(k, n) == [ i \in 1..n |-> Chunk(k, i) ]

\* the header and then the w[i] chunks of every popen call up to the k-th
\* that started a subprocess, in the order of the calls
RECURSIVE ClaimedOutput(_, _, _)
ClaimedOutput(l, w, k) ==
    IF k = 0 THEN << >>
    ELSE ClaimedOutput(l, w, k - 1) \o
         (IF l[k].launched
          THEN << ClaimedHeader(l[k].tok) >> \o Copied(k, w[k])
          ELSE << >>)

IsNotError(r) == r.kind # "error"

-----------------------------------------------------------------------------
(* Tokens and handler calls. *)

\* the tokens of ts that start with a tag of the table
Matched(ts) == { j \in 1..Len(ts) : ~MatchesNoTag(ts[j]) }

OneCallPerToken ==
    \A a, b \in 1..Len(invoked) :
        a < b => invoked[a].token < invoked[b].token

\* C14 as stated: at the end of a query the number of handler calls is the
\* number of non-empty tokens of the query, and no token has two calls.
C14_OneHandlerCallPerToken ==
    (pc = "accept" /\ query # Null) =>
        /\ Len(invoked) = Len(Tokens(query))
        /\ OneCallPerToken

\* C14: InvokeQueryFunction is called once for each non-empty token of the
\* query; the number of handler calls is the number of those tokens that
\* start with a tag of the table, the handler of a token is the one of that
\* tag, and no token has two handler calls.
C14_OneHandlerCallPerMatchedToken ==
    (pc = "accept" /\ query # Null) =>
        /\ OneCallPerToken
        /\ \A a \in 1..Len(invoked) :
            /\ invoked[a].token \in Matched(toks)
            /\ \E i \in 1..Len(queryFuncs) :
                /\ queryFuncs[i].pTagFn = invoked[a].fn
                /\ IsPrefix(queryFuncs[i].tag, toks[invoked[a].token])
        /\ toks = Tokens(query)
        /\ Len(rcs) = Len(toks)
        /\ Len(invoked) = Cardinality(Matched(toks))

\* xstop=a&list was routed: two tokens, one handler call, for the second
C14_Witness ==
    /\ pc = "accept"
    /\ toks = << << "x" >> \o TagStop \o << "a" >>, TagList >>
    /\ invoked = << Call(2, "ProcessListRequest", << >>) >>

-----------------------------------------------------------------------------
(* A subprocess that cannot be started. *)

\* the positions in ts, from j on, of the tokens that are commands
RECURSIVE CommandIndices(_, _)
CommandIndices(ts, j) ==
    IF j > Len(ts) THEN << >>
    ELSE (IF ClaimedCommand(ts[j]) # NoCmd THEN << j >> ELSE << >>)
         \o CommandIndices(ts, j + 1)

\* C15 as stated: a command whose subprocess cannot be started has a result
\* other than the one of a subprocess that ran and wrote nothing, and
\* nothing at all is sent to the caller for that request.
C15_LaunchFailureIsSilent ==
    (pc = "accept" /\ query # Null) =>
        LET idx == CommandIndices(toks, 1)
        IN  \A k \in 1..Len(log) :
                ~log[k].launched =>
                    /\ \A e \in 1..Len(log) :
                        (log[e].launched /\ piped[e] = 0) =>
                            rcs[idx[e]] # rcs[idx[k]]
                    /\ out = << >>

\* C15: a command whose subprocess cannot be started returns ENOENT, a
\* subprocess that ran and wrote nothing returns EOK; no header and no
\* chunk is sent for the command that could not be started, and the
\* response of the request ends with the 400 "Bad request" of ProcessQuery.
C15_LaunchFailureIsBadRequest ==
    (pc = "accept" /\ query # Null) =>
        LET idx == CommandIndices(toks, 1)
        IN  /\ Len(idx) = Len(log)
            /\ Cardinality(Headers(out)) = Cardinality(Launched(log))
            /\ \A k \in 1..Len(log) :
                /\ (log[k].launched /\ piped[k] = 0) => rcs[idx[k]] = EOK
                /\ ~log[k].launched =>
                    /\ rcs[idx[k]] = ENOENT
                    /\ rcs[idx[k]] # EOK
                    /\ \A i \in 1..Len(out) :
                        out[i].kind = "body" => out[i].src # k
                    /\ out # << >>
                    /\ out[Len(out)] = BadRequest
                    /\ result = qresult /\ result # EOK

\* list was asked for and popen failed: the response is the 400 alone
C15_Witness ==
    /\ pc = "accept"
    /\ toks = << TagList >>
    /\ Len(log) = 1
    /\ ~log[1].launched
    /\ rcs = << ENOENT >>
    /\ out = << BadRequest >>

-----------------------------------------------------------------------------
(* The error responses. *)

\* C16: every error response has one of three pairs of status and
\* description, (400, "Bad request"), (405, "Method Not Allowed") or
\* (413, "Invalid Content-Length"): the description is a fixed string of
\* the program, with nothing of the request in it. Stated of the response
\* of each request once it is over (every error response ends a request).
C16_ThreeFixedErrors ==
    pc = "accept" => \A i \in 1..Len(out) :
        out[i].kind = "error" =>
            << out[i].status, out[i].text >> \in
                { << 400, "Bad request" >>,
                  << 405, "Method Not Allowed" >>,
                  << 413, "Invalid Content-Length" >> }

\* a POST without CONTENT_LENGTH was answered with the 413
C16_Witness ==
    /\ pc = "accept"
    /\ method = POST
    /\ contentLength = Null
    /\ Len(out) = 1
    /\ out[1].kind = "error"
    /\ out[1].status = 413
    /\ out[1].text = "Invalid Content-Length"

-----------------------------------------------------------------------------
(* The loop goes on. *)

\* C17: whatever happens to a request, its handling ends and the program
\* is back at FCGI_Accept, given that every subprocess started closes its
\* output; and the loop is left from FCGI_Accept only, when it fails.
C17_BackToAccept ==
    /\ (pc \notin { "accept", "exit" }) ~> (pc = "accept")
    /\ [][pc' = "exit" => pc = "accept"]_vars

\* the program is back at FCGI_Accept after a body that came short
C17_Witness ==
    /\ pc = "accept"
    /\ called = << "ProcessPOSTRequest" >>
    /\ result = ENXIO
    /\ query = Null
    /\ bodyIn # Null
    /\ bodyIn # << >>

-----------------------------------------------------------------------------
(* The router keeps no state. *)

CommandLines(l) == [ k \in 1..Len(l) |-> l[k].cmd ]

\* C18: when the same query has been routed twice and popen succeeded or
\* failed for each command the second time as the first, the two calls
\* have the same result and ran the same command lines in the same order.
C18_SameQuerySameOutcome ==
    (pc = "accept" /\ unit.result = "second") =>
        /\ query = prev.query
        /\ qresult = prev.result
        /\ result = prev.result
        /\ CommandLines(log) = CommandLines(prev.log)

\* stop=b1&list was routed twice, and the list command could not be started
\* either time
C18_Witness ==
    /\ pc = "accept"
    /\ unit.result = "second"
    /\ query = TagStop \o << "b", "1", "&" >> \o TagList
    /\ Len(log) = 2
    /\ log[1].launched /\ ~log[2].launched
    /\ prev.result = ENOENT
    /\ result = ENOENT

-----------------------------------------------------------------------------
(* The POST buffer between requests. *)

\* C19: when the read of a POST body begins, every byte of the buffer is
\* zero, whatever the earlier requests were and however they ended.
C19_BufferZeroBeforeRead ==
    pc = "GetPOSTData" => postBuffer = Zeros(maxPostLength + 1)

\* C20: when the handler of a POST whose body was read in full returns,
\* all maxPostLength + 1 bytes of the buffer are zero, whether the query
\* succeeded or failed.
C20_BufferZeroAfterQuery ==
    (pc = "accept" /\ called = << "ProcessPOSTRequest" >> /\ query # Null) =>
        /\ Len(postBuffer) = maxPostLength + 1
        /\ \A i \in 1..(maxPostLength + 1) : postBuffer[i] = NUL

\* the body stop=b; was read and its query failed: the buffer is zero
C20_Witness ==
    /\ pc = "accept"
    /\ called = << "ProcessPOSTRequest" >>
    /\ bodyIn = TagStop \o << "b", ";" >>
    /\ query = bodyIn
    /\ qresult = EINVAL
    /\ \A i \in 1..(maxPostLength + 1) : postBuffer[i] = NUL

-----------------------------------------------------------------------------
(* A body that comes short. *)

\* the request was a POST whose body came shorter than its declared length
ShortRead ==
    /\ called = << "ProcessPOSTRequest" >>
    /\ bodyIn # Null
    /\ Len(bodyIn) < length

\* what holds of the request whose body came short
C21_ShortReadAlone ==
    (pc = "accept" /\ ShortRead) =>
        /\ result = ENXIO
        /\ result \notin { EOK, EINVAL, ENOMEM, ENOENT }
        /\ out = << >>
        /\ toks = << >>
        /\ log = << >>
        /\ query = Null

\* C21: a POST whose body comes shorter than its declared length ends with
\* ENXIO, which no content error has, with no response byte, no token
\* routed and no subprocess started; and the bytes of a body that came short
\* are never routed as a query: a query of a POST has no byte beyond the
\* body of its own request.
C21_ShortReadNeverRouted ==
    /\ C21_ShortReadAlone
    /\ (called = << "ProcessPOSTRequest" >> /\ query # Null) =>
            Len(query) <= Len(bodyIn)

-----------------------------------------------------------------------------
(* A request without a method. *)

\* C22: a request accepted without a method string has no handler called:
\* from FCGI_Accept to the next FCGI_Accept nothing is sent, no body is
\* read, no subprocess is started, the buffer stays as it was, and the
\* program is back at FCGI_Accept.
C22_NoMethodNoHandler ==
    [][ /\ (pc = "accept" /\ pc' = "method" /\ method' = NoMethod) =>
               postBuffer' = postBuffer
        /\ (pc = "method" /\ method = NoMethod) =>
               /\ pc' = "accept"
               /\ postBuffer' = postBuffer
               /\ called' = << >>
               /\ out' = << >>
               /\ bodyIn' = Null
               /\ log' = << >>
               /\ toks' = << >>
               /\ result' = result ]_vars

\* a request without a method was accepted and is over, with the bytes of
\* an earlier short body still in the buffer
C22_Witness ==
    /\ pc = "accept"
    /\ method = NoMethod
    /\ called = << >>
    /\ out = << >>
    /\ postBuffer[1] = "x"
    /\ result = ENXIO

-----------------------------------------------------------------------------
(* The tokens of a query. *)

\* C23: the tokens given to InvokeQueryFunction are the non-empty maximal
\* fragments of the query between '&' characters, from left to right: no
\* token is empty, none holds a delimiter, and delimiters that follow one
\* another, or stand at the start or the end, give no token.
C23_TokensAreFragments ==
    (pc \in { "ProcessQueryReturn", "accept" } /\ query # Null) =>
        /\ toks = Tokens(query)
        /\ \A j \in 1..Len(toks) :
            /\ toks[j] # << >>
            /\ \A i \in 1..Len(toks[j]) : toks[j][i] # "&"
        /\ Join(toks, << "&" >>) = Join(Tokens(query), << "&" >>)

\* &list&&stop=b1& was tokenized: list, then stop=b1
C23_Witness ==
    /\ pc = "ProcessQueryReturn"
    /\ query = << "&" >> \o TagList \o << "&", "&" >> \o TagStop
                 \o << "b", "1", "&" >>
    /\ toks = << TagList, TagStop \o << "b", "1" >> >>

-----------------------------------------------------------------------------
(* The handler of a token. *)

\* the entries of the table in another order
TableOrders ==
    { p \in [ 1..Len(queryFuncs) -> 1..Len(queryFuncs) ] :
        \A i, j \in 1..Len(queryFuncs) : i # j => p[i] # p[j] }

Reordered(p) == [ i \in 1..Len(queryFuncs) |-> queryFuncs[p[i]] ]

\* the handler the loop of InvokeQueryFunction finds for t in a table
HandlerIn(t, table) ==
    IF MatchQueryFunc(t, table) = 0 THEN NoFn
    ELSE table[MatchQueryFunc(t, table)].pTagFn

\* every token a query is made of finds the same handler in every order of
\* the table
OrderIndependent ==
    \A t \in TokenSet \cup EmptyNameQueries : \A p \in TableOrders :
        HandlerIn(t, Reordered(p)) = HandlerIn(t, queryFuncs)

\* the entries of the table whose tag t starts with
PrefixEntries(t) ==
    { i \in 1..Len(queryFuncs) :
        /\ Len(queryFuncs[i].tag) <= Len(t)
        /\ \A n \in 1..Len(queryFuncs[i].tag) : t[n] = queryFuncs[i].tag[n] }

\* C24: the handler called for a token is the one of the first entry of
\* the table (start=, stop=, restart=, list) whose tag the token starts
\* with, byte for byte, and it gets the rest of the token after the tag; a
\* token starts with one tag at most, so the table in any other order
\* finds the same handler; a token with a tag further in has no handler.
C24_FirstPrefixHandler ==
    (pc = "accept" /\ query # Null) =>
        /\ [ i \in 1..Len(queryFuncs) |-> queryFuncs[i].tag ] =
                << TagStart, TagStop, TagRestart, TagList >>
        /\ \A a \in 1..Len(invoked) :
            LET t == toks[invoked[a].token]
                first == CHOOSE i \in PrefixEntries(t) :
                            \A j \in PrefixEntries(t) : i <= j
            IN  /\ PrefixEntries(t) # { }
                /\ invoked[a].fn = queryFuncs[first].pTagFn
                /\ Len(invoked[a].arg) = Len(t) - Len(queryFuncs[first].tag)
                /\ queryFuncs[first].tag \o invoked[a].arg = t
        /\ \A j \in 1..Len(toks) :
            /\ Cardinality(PrefixEntries(toks[j])) <= 1
            /\ PrefixEntries(toks[j]) = { } =>
                    \A a \in 1..Len(invoked) : invoked[a].token # j
            /\ toks[j] \in TokenSet \cup EmptyNameQueries
        /\ OrderIndependent

\* xstop=a&restart=c was routed: no handler for the first token, the restart
\* handler with c for the second
C24_Witness ==
    /\ pc = "accept"
    /\ toks = << << "x" >> \o TagStop \o << "a" >>, TagRestart \o << "c" >> >>
    /\ invoked = << Call(2, "ProcessRestartRequest", << "c" >>) >>

-----------------------------------------------------------------------------
(* C25, C26: the buffer at startup, under SpecMain. *)

\* AllocatePOSTBuffer did not return EOK: the limit is 0, or calloc gave NULL
NoBuffer == maxPostLength = 0 \/ postBuffer = Null

\* C25: when the POST buffer cannot be set up at startup (the limit is 0 or
\* the allocation fails), main logs the failure and returns: the service is
\* never in the request loop, no request is accepted or handled and no
\* subprocess is launched in any later state.
C25_NoBufferNoService ==
    /\ [](NoBuffer =>
            /\ pc \in { "main", "syslog", "exit" }
            /\ method = NoMethod
            /\ RequestLocals)
    /\ [][ /\ (pc = "main" /\ NoBuffer') => pc' = "syslog"
           /\ pc = "syslog" => pc' = "exit"
           /\ (NoBuffer /\ pc' = "exit") => pc = "syslog" ]_vars

\* the allocation of a positive limit failed, was logged, and main returned
C25_Witness ==
    /\ pc = "exit"
    /\ maxPostLength > 0
    /\ postBuffer = Null

\* C26: for every positive limit M the size_t field can hold, the buffer has
\* M + 1 bytes, no read writes at index M or beyond, and the byte at index M
\* is zero in every state from the allocation on.
C26_TerminatorForEveryLimit ==
    (maxPostLength > 0 /\ postBuffer # Null) =>
        /\ pc # "overflow"
        /\ Len(postBuffer) = maxPostLength + 1
        /\ postBuffer[maxPostLength + 1] = NUL

\* what holds of it: the same for every limit below the largest size_t
C26_TerminatorBelowLargest ==
    (maxPostLength \in 1..(ULONG_MAX - 1) /\ postBuffer # Null) =>
        /\ pc # "overflow"
        /\ Len(postBuffer) = maxPostLength + 1
        /\ postBuffer[maxPostLength + 1] = NUL

-----------------------------------------------------------------------------
(* The empty process name. *)

\* C27: a token that is exactly start=, stop= or restart= passes the
\* validation of its (empty) name: its handler is called with the empty
\* suffix, the command of its verb is issued with an empty name, and the
\* token's result is success when the subprocess could be started.
C27_EmptyNameIsLaunched ==
    (pc = "accept" /\ query # Null) =>
        LET idx == CommandIndices(toks, 1)
        IN  /\ Len(idx) = Len(log)
            /\ \A j \in 1..Len(toks) :
                toks[j] \in NameTags =>
                    /\ \E a \in 1..Len(invoked) :
                        invoked[a].token = j /\ invoked[a].arg = << >>
                    /\ \E k \in 1..Len(log) :
                        /\ idx[k] = j
                        /\ log[k].tok = toks[j]
                        /\ log[k].cmd.path = ProcmonPath
                        /\ log[k].cmd.verb \in { VerbStart, VerbStop, VerbRestart }
                        /\ TagOfVerb(log[k].cmd.verb) = toks[j]
                        /\ log[k].cmd.arg = << >>
                        /\ log[k].launched => rcs[j] = EOK

\* restart= was routed: procmon -r with no name was started and the result
\* of the query is success
C27_Witness ==
    /\ pc = "accept"
    /\ toks = << TagRestart >>
    /\ Len(log) = 1
    /\ log[1].launched
    /\ log[1].cmd.verb = VerbRestart
    /\ log[1].cmd.arg = << >>
    /\ rcs = << EOK >>
    /\ result = EOK

-----------------------------------------------------------------------------
(* The status headers of one response. *)

\* C28: between the accept of a request and the accept of the next, at most
\* one status header is written to the response: not one 200 header for
\* each command of the query, and no 400 response after a 200 header.
C28_OneStatusHeader ==
    /\ Cardinality(Headers(out) \cup Errors(out)) <= 1
    /\ \A i, j \in 1..Len(out) :
        (i < j /\ out[i].kind = "header") => out[j].kind # "error"

-----------------------------------------------------------------------------
(* The query without a token. *)

\* C29: a query that is present and holds no token (it is empty, or made of
\* '&' only) succeeds: no handler is called, no subprocess is started and
\* no byte is written to the response.
C29_NoTokenIsSuccess ==
    (/\ pc \in { "ProcessQueryReturn", "accept" }
     /\ query # Null
     /\ \A i \in 1..Len(query) : query[i] = "&") =>
        /\ toks = << >>
        /\ invoked = << >>
        /\ log = << >>
        /\ out = << >>
        /\ qresult = EOK
        /\ pc = "accept" => result = EOK

\* the query && of a GET was routed
C29_Witness ==
    /\ pc = "accept"
    /\ method = GET
    /\ query = << "&", "&" >>
    /\ toks = << >>
    /\ out = << >>
    /\ result = EOK

-----------------------------------------------------------------------------
(* The caller's query string. *)

\* C30: routing a query leaves the caller's string as it was: no step of
\* ProcessQueryFunctions changes the QUERY_STRING of a GET or the content of
\* the buffer of a POST, and when ProcessQueryFunctions has returned the
\* buffer of a POST still holds the query that was routed.
C30_QueryLeftUnchanged ==
    /\ [](pc = "ProcessQueryReturn" =>
            /\ query # Null
            /\ HandlerOf(method) = "ProcessPOSTRequest" =>
                    CString(postBuffer) = query
            /\ HandlerOf(method) = "ProcessGETRequest" =>
                    query \in QueryStrings)
    /\ [][ (InQuery /\ pc # "ProcessQueryReturn") =>
                /\ query' = query
                /\ postBuffer' = postBuffer ]_vars

\* the body start=a&x of a POST was tokenized to its end and is still in
\* the buffer
C30_Witness ==
    /\ pc = "ProcessQueryReturn"
    /\ method = POST
    /\ toks = << TagStart \o << "a" >>, << "x" >> >>
    /\ query = TagStart \o << "a", "&", "x" >>
    /\ bodyIn = query
    /\ CString(postBuffer) = query

=============================================================================
